---- MODULE Spec2Model ----
(***************************************************************************)
(* Token-bucket rate limiter (app/rate_limiter.py) over a shared Redis     *)
(* store reached through RedisClient (app/redis_client.py), with the tier  *)
(* registry of app/config.py and the /check endpoint of main.py.           *)
(*                                                                         *)
(* Numbers.  time.time() is read on a grid of whole seconds.  Token counts *)
(* are Python floats; here they are exact rationals kept as integers in    *)
(* units of 1/Scale token, where Scale is a common multiple of all tier    *)
(* windows so that elapsed * limit / window is exact on the grid.          *)
(***************************************************************************)
EXTENDS Integers, Sequences, FiniteSets, TLC

\* ------------------------------------------------------------------ bounds
FreeLimit  == 2
FreeWindow == 1
ProLimit   == 3
ProWindow  == 2
MaxTime    == 4
MaxCalls   == 4

\* --------------------------------------------------------- program constants
max_retries == 3

\* ------------------------------------------------------------ configuration
None == "None"

tiers ==
  [free |-> [limit |-> FreeLimit, window |-> FreeWindow],
   pro  |-> [limit |-> ProLimit,  window |-> ProWindow]]

default_tier == "free"

TierNames == DOMAIN tiers

\* tier arguments a caller can pass: absent, empty, registered, unregistered
TierArgs == {None, "", "free", "pro", "bogus"}

Identifiers == {"A", "B"}

Procs == {1, 2}

Scale == FreeWindow * ProWindow

Min(a, b) == IF a <= b THEN a ELSE b

\* ------------------------------------------------------------------- config
\* a slip in lines 47-50: an unknown name falls back to some tier of the
\* registry, not to the default one
get_tier_other(tier_name) ==
  IF tier_name \in DOMAIN tiers THEN tiers[tier_name] ELSE tiers.pro

\* Settings.get_tier: dict.get(tier_name, tiers[default_tier])
get_tier(tier_name) ==
  IF tier_name \in DOMAIN tiers THEN tiers[tier_name] ELSE tiers[default_tier]

\* ------------------------------------------------------------ serialization
\* json.dumps of {"tokens": .., "last_refill": ..}: the text, as its tokens
json_dumps(state) == <<"tokens", state.tokens, "last_refill", state.last_refill>>

\* bytes under a key that are not a JSON document of a bucket record
Garbage == <<"garbage">>

ParseError == [error |-> "JSONDecodeError"]

\* json.loads: the dict for a well-formed text, an exception otherwise
json_loads(data) ==
  IF Len(data) = 4 /\ data[1] = "tokens" /\ data[3] = "last_refill"
  THEN [tokens |-> data[2], last_refill |-> data[4]]
  ELSE ParseError

\* ---------------------------------------------------------------- the store
NoKey == [present |-> FALSE]

\* a key written without ex= never expires
NoExpiry == 0 - 1

\* a slip in line 69: the identifier is left out of the key
_get_redis_key_shared(identifier) == <<"rate_limit:", "">>

\* RateLimiter._get_redis_key: f"rate_limit:{identifier}"
_get_redis_key(identifier) == <<"rate_limit:", identifier>>

Keys == {_get_redis_key(i) : i \in Identifiers}

VARIABLES
  now,           \* the wall clock read by time.time()
  store,         \* Redis: key -> NoKey or [present, data, ttl (seconds left)]
  serverUp,      \* Redis answers commands
  client,        \* RedisClient.client is not None
  is_connected,  \* RedisClient.is_connected
  connPc,        \* position of the connect() coroutine
  attempt,       \* connect(): loop variable
  connRaised,    \* the last connect() to finish raised
  pc,            \* position of each check coroutine
  ident,         \* its identifier argument
  tier,          \* its tier argument, after the default of lines 18-19
  tier_config,   \* the tier record it resolved (limit, window)
  api,           \* it was called by the /check handler
  data,          \* what its client.get returned
  pending,       \* the record and ttl of its client.set in flight
  result,        \* what the last call of the process returned or raised
  gets,          \* store reads issued by the current call
  sets,          \* store writes issued by the current call
  decided,       \* checks of an identifier that returned a decision
  granted,       \* checks allowed per identifier
  tiersUsed,     \* tier records the checks of an identifier resolved to
  overlap,       \* a check of the identifier began while another was in flight
  age,           \* seconds of server time since a check last wrote the key
  log            \* per identifier, the decisions in order: clock reading, outcome

connVars == <<client, is_connected, connPc, attempt, connRaised>>
procVars == <<pc, ident, tier, tier_config, api, data, pending, result, gets, sets>>
histVars == <<decided, granted, tiersUsed, overlap, age, log>>
vars == <<now, store, serverUp, connVars, procVars, histVars>>

\* age of a key no check has written
Never == 0 - 1

\* the longest ttl a check sets: twice the longest window
LongestTtl == 2 * (IF FreeWindow > ProWindow THEN FreeWindow ELSE ProWindow)

NoResult == [kind |-> "none"]
NoData == [kind |-> "nothing"]

\* replies of client.get: None for a missing key, the bytes otherwise
Nil == [kind |-> "nil"]
Bytes(b) == [kind |-> "bytes", bytes |-> b]

\* RedisClient.get_client: raises unless is_connected and client is not None
get_client == is_connected /\ client

\* the server executes commands of a client only while it is up
StoreAnswers == serverUp

Raised(what, viaApi) ==
  [kind |-> "error", error |-> what, http |-> IF viaApi THEN 500 ELSE 0]

Init ==
  /\ now = 0
  /\ store = [k \in Keys |-> NoKey]
  /\ serverUp = TRUE
  /\ client = FALSE
  /\ is_connected = FALSE
  /\ connPc = "idle"
  /\ attempt = 0
  /\ connRaised = FALSE
  /\ pc = [p \in Procs |-> "idle"]
  /\ ident = [p \in Procs |-> "A"]
  /\ tier = [p \in Procs |-> None]
  /\ tier_config = [p \in Procs |-> tiers[default_tier]]
  /\ api = [p \in Procs |-> FALSE]
  /\ data = [p \in Procs |-> NoData]
  /\ pending = [p \in Procs |-> NoData]
  /\ result = [p \in Procs |-> NoResult]
  /\ gets = [p \in Procs |-> 0]
  /\ sets = [p \in Procs |-> 0]
  /\ decided = [i \in Identifiers |-> 0]
  /\ granted = [i \in Identifiers |-> 0]
  /\ tiersUsed = [i \in Identifiers |-> {}]
  /\ overlap = [i \in Identifiers |-> FALSE]
  /\ age = [k \in Keys |-> Never]
  /\ log = [i \in Identifiers |-> <<>>]

\* ------------------------------------------------------------------ engine
\* a slip in line 102: the refilled count is not capped at capacity
_calculate_tokens_uncapped(current_tokens, last_refill, refill_rate, capacity) ==
  LET current_time == now
      elapsed_time == IF current_time - last_refill < 0
                      THEN 0 ELSE current_time - last_refill
      added_tokens == (elapsed_time * refill_rate[1] * Scale) \div refill_rate[2]
  IN  <<current_tokens + added_tokens, current_time>>

\* a slip in lines 97-99: a negative elapsed time is used as it is
_calculate_tokens_unclamped(current_tokens, last_refill, refill_rate, capacity) ==
  LET current_time == now
      elapsed_time == current_time - last_refill
      added_tokens == 0 - ((0 - elapsed_time * refill_rate[1] * Scale) \div refill_rate[2])
      new_tokens   == Min(capacity * Scale, current_tokens + added_tokens)
  IN  <<new_tokens, current_time>>

\* RateLimiter._calculate_tokens; refill_rate = limit / window is carried as
\* the pair <<limit, window>>, tokens are in units of 1/Scale
_calculate_tokens(current_tokens, last_refill, refill_rate, capacity) ==
  LET current_time == now
      elapsed_time == IF current_time - last_refill < 0
                      THEN 0 ELSE current_time - last_refill
      added_tokens == (elapsed_time * refill_rate[1] * Scale) \div refill_rate[2]
      new_tokens   == Min(capacity * Scale, current_tokens + added_tokens)
  IN  <<new_tokens, current_time>>

\* int(x) of a token count: truncation toward zero
int(x) == IF x >= 0 THEN x \div Scale ELSE 0 - ((0 - x) \div Scale)

\* a slip in line 40: a bucket holding no whole token still admits
Admits_atZero(new_tokens) == new_tokens >= 0

\* check_rate_limit line 40: new_tokens >= 1
Admits(new_tokens) == new_tokens >= 1 * Scale

\* a slip in line 42: the admitted request takes no token
Consume_nothing(new_tokens) == new_tokens

\* check_rate_limit line 42: new_tokens -= 1
Consume(new_tokens) == new_tokens - Scale

\* a slip in line 47: the record is saved with ttl = window
Allowed_shortTtl(new_tokens, current_time, limit, window) ==
  [write |-> TRUE,
   save  |-> [tokens |-> Consume(new_tokens), last_refill |-> current_time],
   ttl   |-> window,
   ret   |-> [kind |-> "decision", allowed |-> TRUE,
               tokens_remaining |-> int(Consume(new_tokens)),
               reset_at |-> current_time + window,
               limit |-> limit]]

\* check_rate_limit lines 41-55: what an admitted check saves and returns
Allowed(new_tokens, current_time, limit, window) ==
  [write |-> TRUE,
   save  |-> [tokens |-> Consume(new_tokens), last_refill |-> current_time],
   ttl   |-> window * 2,
   ret   |-> [kind |-> "decision", allowed |-> TRUE,
               tokens_remaining |-> int(Consume(new_tokens)),
               reset_at |-> current_time + window,
               limit |-> limit]]

\* a slip in lines 56-64: the denied branch saves the refilled bucket too
Denied_saves(new_tokens, current_time, limit, window) ==
  [write |-> TRUE,
   save  |-> [tokens |-> new_tokens, last_refill |-> current_time],
   ttl   |-> window * 2,
   ret   |-> [kind |-> "decision", allowed |-> FALSE,
               tokens_remaining |-> 0,
               reset_at |-> current_time + window,
               limit |-> limit, retry_after |-> window]]

\* a slip in line 60: reset_at of a denial is the clock reading itself
Denied_resetNow(new_tokens, current_time, limit, window) ==
  [write |-> FALSE,
   ret   |-> [kind |-> "decision", allowed |-> FALSE,
               tokens_remaining |-> 0,
               reset_at |-> current_time,
               limit |-> limit, retry_after |-> window]]

\* check_rate_limit lines 56-64: what a denied check returns; it saves nothing
Denied(new_tokens, current_time, limit, window) ==
  [write |-> FALSE,
   ret   |-> [kind |-> "decision", allowed |-> FALSE,
               tokens_remaining |-> 0,
               reset_at |-> current_time + window,
               limit |-> limit, retry_after |-> window]]

\* check_rate_limit lines 31-64: refill, then one of the two branches
Decide(state, limit, window) ==
  LET calc         == _calculate_tokens(state.tokens, state.last_refill,
                                        <<limit, window>>, limit)
      new_tokens   == calc[1]
      current_time == calc[2]
  IN  IF Admits(new_tokens)
      THEN Allowed(new_tokens, current_time, limit, window)
      ELSE Denied(new_tokens, current_time, limit, window)

\* a slip in line 80: the bucket of a new identifier starts one token short
BucketState_short(reply, capacity) ==
  IF reply = Nil
  THEN [tokens |-> (capacity - 1) * Scale, last_refill |-> now]
  ELSE json_loads(reply.bytes)

\* _get_bucket_state after the reply: a full bucket for an absent key,
\* json.loads of the bytes otherwise
BucketState(reply, capacity) ==
  IF reply = Nil
  THEN [tokens |-> capacity * Scale, last_refill |-> now]
  ELSE json_loads(reply.bytes)

\* a slip in lines 72-81: the handler answers a denial like a grant
Http_alwaysOk(viaApi, ret) ==
  IF ~viaApi THEN 0 ELSE 200

\* main.py: the status code the /check handler answers with
Http(viaApi, ret) ==
  IF ~viaApi THEN 0 ELSE IF ret.allowed THEN 200 ELSE 429

\* the decision as the caller receives it; k numbers the decisions of the
\* identifier in the order they were returned
Returned(ret, viaApi, k) ==
  ret @@ [http |-> Http(viaApi, ret), k |-> k]

\* history keeping: the h argument of an action says whether the run counts
\* decisions (and is then cut off after MaxCalls decisions per identifier)
Count(counter, id, h) == IF h THEN [counter EXCEPT ![id] = @ + 1] ELSE counter

Ordinal(id, h) == IF h THEN decided[id] + 1 ELSE 0

Logged(id, h, at, allowed) ==
  IF h THEN [log EXCEPT ![id] = Append(@, [at |-> at, allowed |-> allowed])]
  ELSE log

\* ------------------------------------------------------------- coordinator
\* check_rate_limit up to the suspension in client.get: resolve the tier,
\* derive the key, get_client()
Enter(p, id, t, viaApi, h) ==
  LET tn == IF t = None THEN default_tier ELSE t
      tc == get_tier(tn)
  IN  /\ h => decided[id] < MaxCalls
      /\ IF h /\ get_client
         THEN /\ tiersUsed' = [tiersUsed EXCEPT ![id] = @ \cup {tc}]
              /\ overlap' = [overlap EXCEPT ![id] =
                    @ \/ \E q \in Procs \ {p} : pc[q] \in {"get", "calc", "set"}
                                                /\ ident[q] = id]
         ELSE UNCHANGED <<tiersUsed, overlap>>
      /\ ident' = [ident EXCEPT ![p] = id]
      /\ tier' = [tier EXCEPT ![p] = tn]
      /\ tier_config' = [tier_config EXCEPT ![p] = tc]
      /\ api' = [api EXCEPT ![p] = viaApi]
      /\ data' = [data EXCEPT ![p] = NoData]
      /\ pending' = [pending EXCEPT ![p] = NoData]
      /\ sets' = [sets EXCEPT ![p] = 0]
      /\ IF get_client
         THEN /\ pc' = [pc EXCEPT ![p] = "get"]
              /\ gets' = [gets EXCEPT ![p] = 1]
              /\ result' = [result EXCEPT ![p] = NoResult]
         ELSE /\ pc' = [pc EXCEPT ![p] = "done"]
              /\ gets' = [gets EXCEPT ![p] = 0]
              /\ result' = [result EXCEPT ![p] = Raised("not_connected", viaApi)]
      /\ UNCHANGED <<now, store, serverUp, connVars, decided, granted, age, log>>

\* a direct call of RateLimiter.check_rate_limit(identifier, tier)
check_rate_limit(p, id, t, h) ==
  /\ pc[p] = "idle"
  /\ Enter(p, id, t, FALSE, h)

\* a slip in lines 63-64: the tier is handed on without the registry check
rate_limit_unvalidated(p, id, t, h) ==
  LET tn == IF t = None \/ t = "" THEN default_tier ELSE t
  IN  /\ pc[p] = "idle"
      /\ Enter(p, id, tn, TRUE, h)

\* POST /check: main.rate_limit
rate_limit(p, id, t, h) ==
  LET tn == IF t = None \/ t = "" THEN default_tier ELSE t
  IN  /\ pc[p] = "idle"
      /\ IF tn \notin DOMAIN tiers
         THEN /\ result' = [result EXCEPT ![p] = [kind |-> "rejected", http |-> 400]]
              /\ ident' = [ident EXCEPT ![p] = id]
              /\ tier' = [tier EXCEPT ![p] = tn]
              /\ api' = [api EXCEPT ![p] = TRUE]
              /\ gets' = [gets EXCEPT ![p] = 0]
              /\ sets' = [sets EXCEPT ![p] = 0]
              /\ pc' = [pc EXCEPT ![p] = "done"]
              /\ UNCHANGED <<now, store, serverUp, connVars, histVars,
                             tier_config, data, pending>>
         ELSE Enter(p, id, tn, TRUE, h)

\* a slip in lines 74-78: a failed GET is taken for a missing key
GetReply_failOpen(p) ==
  /\ pc[p] = "get"
  /\ data' = [data EXCEPT ![p] =
                LET rec == store[_get_redis_key(ident[p])]
                IN  IF StoreAnswers /\ rec.present THEN Bytes(rec.data) ELSE Nil]
  /\ pc' = [pc EXCEPT ![p] = "calc"]
  /\ UNCHANGED <<now, store, serverUp, connVars, histVars, result,
                 ident, tier, tier_config, api, pending, gets, sets>>

\* the server executes the GET of a check, or the command fails
GetReply(p) ==
  /\ pc[p] = "get"
  /\ IF StoreAnswers
     THEN /\ data' = [data EXCEPT ![p] =
                        LET rec == store[_get_redis_key(ident[p])]
                        IN  IF rec.present THEN Bytes(rec.data) ELSE Nil]
          /\ pc' = [pc EXCEPT ![p] = "calc"]
          /\ UNCHANGED result
     ELSE /\ pc' = [pc EXCEPT ![p] = "done"]
          /\ result' = [result EXCEPT ![p] = Raised("store", api[p])]
          /\ UNCHANGED data
  /\ UNCHANGED <<now, store, serverUp, connVars, histVars,
                 ident, tier, tier_config, api, pending, gets, sets>>

\* the coroutine resumes with the reply: lines 78-84 and 31-64 up to the
\* suspension in client.set (allowed) or the return (denied)
Calc(p, h) ==
  LET limit  == tier_config[p].limit
      window == tier_config[p].window
      state  == BucketState(data[p], limit)
  IN  /\ pc[p] = "calc"
      /\ IF state = ParseError
         THEN /\ pc' = [pc EXCEPT ![p] = "done"]
              /\ result' = [result EXCEPT ![p] = Raised("parse", api[p])]
              /\ UNCHANGED <<pending, sets, decided, log>>
         ELSE LET d == Decide(state, limit, window)
              IN  IF d.write
                  THEN IF get_client
                       THEN /\ pc' = [pc EXCEPT ![p] = "set"]
                            /\ pending' = [pending EXCEPT ![p] =
                                 [data |-> json_dumps(d.save), ttl |-> d.ttl,
                                  ret |-> d.ret]]
                            /\ sets' = [sets EXCEPT ![p] = 1]
                            /\ UNCHANGED <<result, decided, log>>
                       ELSE /\ pc' = [pc EXCEPT ![p] = "done"]
                            /\ result' = [result EXCEPT ![p] =
                                            Raised("not_connected", api[p])]
                            /\ UNCHANGED <<pending, sets, decided, log>>
                  ELSE /\ pc' = [pc EXCEPT ![p] = "done"]
                       /\ result' = [result EXCEPT ![p] =
                                       Returned(d.ret, api[p], Ordinal(ident[p], h))]
                       /\ decided' = Count(decided, ident[p], h)
                       /\ log' = Logged(ident[p], h, now, d.ret.allowed)
                       /\ UNCHANGED <<pending, sets>>
      /\ UNCHANGED <<now, store, serverUp, connVars, granted, tiersUsed, overlap,
                     age, ident, tier, tier_config, api, data, gets>>

\* the server executes the SET key value EX ttl of a check, or it fails
SetReply(p, h) ==
  /\ pc[p] = "set"
  /\ pc' = [pc EXCEPT ![p] = "done"]
  /\ IF StoreAnswers
     THEN /\ store' = [store EXCEPT ![_get_redis_key(ident[p])] =
                         [present |-> TRUE, data |-> pending[p].data,
                          ttl |-> pending[p].ttl]]
          /\ result' = [result EXCEPT ![p] =
                          Returned(pending[p].ret, api[p], Ordinal(ident[p], h))]
          /\ decided' = Count(decided, ident[p], h)
          /\ granted' = Count(granted, ident[p], h /\ pending[p].ret.allowed)
          /\ age' = [age EXCEPT ![_get_redis_key(ident[p])] = 0]
          /\ log' = Logged(ident[p], h, json_loads(pending[p].data).last_refill,
                           pending[p].ret.allowed)
     ELSE /\ result' = [result EXCEPT ![p] = Raised("store", api[p])]
          /\ UNCHANGED <<store, decided, granted, age, log>>
  /\ UNCHANGED <<now, serverUp, connVars, tiersUsed, overlap,
                 ident, tier, tier_config, api, data, pending, gets, sets>>

\* the caller takes the result; the coroutine's frame and its locals are gone
Return(p) ==
  /\ pc[p] = "done"
  /\ pc' = [pc EXCEPT ![p] = "idle"]
  /\ result' = [result EXCEPT ![p] = NoResult]
  /\ ident' = [ident EXCEPT ![p] = "A"]
  /\ tier' = [tier EXCEPT ![p] = None]
  /\ tier_config' = [tier_config EXCEPT ![p] = tiers[default_tier]]
  /\ api' = [api EXCEPT ![p] = FALSE]
  /\ gets' = [gets EXCEPT ![p] = 0]
  /\ sets' = [sets EXCEPT ![p] = 0]
  /\ data' = [data EXCEPT ![p] = NoData]
  /\ pending' = [pending EXCEPT ![p] = NoData]
  /\ UNCHANGED <<now, store, serverUp, connVars, histVars>>

\* ------------------------------------------------------------- environment
\* a second passes: the clock advances and the server ages its keys
Expire(rec) ==
  IF rec.present /\ rec.ttl # NoExpiry
  THEN IF rec.ttl = 1 THEN NoKey ELSE [rec EXCEPT !.ttl = @ - 1]
  ELSE rec

Tick ==
  /\ now < MaxTime
  /\ now' = now + 1
  /\ store' = [k \in Keys |-> Expire(store[k])]
  /\ age' = [k \in Keys |-> IF age[k] = Never THEN Never
                              ELSE Min(age[k] + 1, LongestTtl)]
  /\ UNCHANGED <<serverUp, connVars, procVars, decided, granted, tiersUsed, overlap,
                 log>>

\* the wall clock is stepped back; the server's expiry clock is its own
ClockBack ==
  /\ now > 0
  /\ now' = now - 1
  /\ UNCHANGED <<store, serverUp, connVars, procVars, histVars>>

ServerDown ==
  /\ serverUp
  /\ serverUp' = FALSE
  /\ UNCHANGED <<now, store, connVars, procVars, histVars>>

ServerUp ==
  /\ ~serverUp
  /\ serverUp' = TRUE
  /\ UNCHANGED <<now, store, connVars, procVars, histVars>>

\* another writer leaves bytes under a key that are not a bucket record
Corrupt(k) ==
  /\ serverUp
  /\ store[k] # [present |-> TRUE, data |-> Garbage, ttl |-> NoExpiry]
  /\ store' = [store EXCEPT ![k] =
                 [present |-> TRUE, data |-> Garbage, ttl |-> NoExpiry]]
  /\ UNCHANGED <<now, serverUp, connVars, procVars, histVars>>

\* token counts outside [0, capacity] of every tier, in units of 1/Scale
ForeignTokens == {0 - Scale, (ProLimit + 1) * Scale}

\* another writer leaves a well-formed record whose tokens are out of range
Foreign(k, tok) ==
  /\ serverUp
  /\ store[k] # [present |-> TRUE,
                 data |-> json_dumps([tokens |-> tok, last_refill |-> now]),
                 ttl |-> NoExpiry]
  /\ store' = [store EXCEPT ![k] =
                 [present |-> TRUE,
                  data |-> json_dumps([tokens |-> tok, last_refill |-> now]),
                  ttl |-> NoExpiry]]
  /\ UNCHANGED <<now, serverUp, connVars, procVars, histVars>>

\* --------------------------------------------------------------- connection
\* RedisClient.connect: entry
connect ==
  /\ connPc = "idle"
  /\ connPc' = "try"
  /\ attempt' = 0
  /\ UNCHANGED <<now, store, serverUp, client, is_connected, connRaised,
                 procVars, histVars>>

\* a slip in line 31: the loop sleeps and tries again after the last attempt
connect_attempt_again ==
  /\ connPc = "try"
  /\ client' = TRUE
  /\ IF serverUp
     THEN /\ is_connected' = TRUE
          /\ connPc' = "idle"
          /\ connRaised' = FALSE
          /\ UNCHANGED attempt
     ELSE IF attempt < max_retries
          THEN /\ attempt' = attempt + 1
               /\ UNCHANGED <<is_connected, connPc, connRaised>>
          ELSE /\ connPc' = "idle"
               /\ connRaised' = TRUE
               /\ UNCHANGED <<is_connected, attempt>>
  /\ UNCHANGED <<now, store, serverUp, procVars, histVars>>

\* one iteration of the loop of connect: from_url, ping, commit or retry
connect_attempt ==
  /\ connPc = "try"
  /\ client' = TRUE
  /\ IF serverUp
     THEN /\ is_connected' = TRUE
          /\ connPc' = "idle"
          /\ connRaised' = FALSE
          /\ UNCHANGED attempt
     ELSE IF attempt < max_retries - 1
          THEN /\ attempt' = attempt + 1
               /\ UNCHANGED <<is_connected, connPc, connRaised>>
          ELSE /\ connPc' = "idle"
               /\ connRaised' = TRUE
               /\ UNCHANGED <<is_connected, attempt>>
  /\ UNCHANGED <<now, store, serverUp, procVars, histVars>>

\* RedisClient.close
close ==
  /\ connPc = "idle"
  /\ IF client
     THEN /\ is_connected' = FALSE
          /\ client' = FALSE
     ELSE UNCHANGED <<client, is_connected>>
  /\ UNCHANGED <<now, store, serverUp, connPc, attempt, connRaised,
                 procVars, histVars>>

\* ------------------------------------------------------------ specification
Requests(P, Ids, h) ==
  \E p \in P, id \in Ids, t \in TierArgs : rate_limit(p, id, t, h)

DirectCalls(P, Ids, h) ==
  \E p \in P, id \in Ids, t \in TierArgs : check_rate_limit(p, id, t, h)

Steps(P, h) ==
  \/ \E p \in P : GetReply(p)
  \/ \E p \in P : Calc(p, h)
  \/ \E p \in P : SetReply(p, h)
  \/ \E p \in P : Return(p)

Clock == Tick \/ ClockBack

Faults == ServerDown \/ ServerUp \/ (\E k \in Keys : Corrupt(k)) \/ close

Connect == connect \/ connect_attempt

\* one caller at a time, no time passing, no faults; decisions counted
NextSeq ==
  \/ Requests({1}, Identifiers, TRUE) \/ DirectCalls({1}, Identifiers, TRUE)
  \/ Steps({1}, TRUE) \/ Connect

SpecSeq == Init /\ [][NextSeq]_vars

\* concurrent requests for one identifier, no time passing, no faults;
\* decisions counted
NextRace == Requests(Procs, {"A"}, TRUE) \/ Steps(Procs, TRUE) \/ Connect

SpecRace == Init /\ [][NextRace]_vars

\* one request at a time for one identifier, the clock moving both ways,
\* keys expiring
NextTime == Requests({1}, {"A"}, FALSE) \/ Steps({1}, FALSE) \/ Connect \/ Clock

SpecTime == Init /\ [][NextTime]_vars

\* one request at a time, outages, reconnects and foreign bytes
NextFault == Requests({1}, Identifiers, FALSE) \/ Steps({1}, FALSE) \/ Connect \/ Faults

SpecFault == Init /\ [][NextFault]_vars

\* one request at a time for one identifier, the clock moving both ways,
\* and records with out-of-range tokens left by another writer
NextForeign ==
  \/ Requests({1}, {"A"}, FALSE) \/ Steps({1}, FALSE) \/ Connect \/ Clock
  \/ \E tok \in ForeignTokens : Foreign(_get_redis_key("A"), tok)

SpecForeign == Init /\ [][NextForeign]_vars

\* one request at a time for one identifier, time passing, keys expiring;
\* decisions counted and logged
NextPace == Requests({1}, {"A"}, TRUE) \/ Steps({1}, TRUE) \/ Connect \/ Tick

SpecPace == Init /\ [][NextPace]_vars

\* one request at a time for one identifier while the server goes down and
\* comes back and the connection is opened and closed; an attempt of
\* connect that has begun completes (the event loop resumes the coroutine
\* when the ping answers or fails and when the sleep is over)
NextConn ==
  \/ Requests({1}, {"A"}, FALSE) \/ Steps({1}, FALSE) \/ Connect
  \/ ServerDown \/ ServerUp \/ close

SpecConn == Init /\ [][NextConn]_vars /\ WF_vars(connect_attempt)

\* one request at a time over both identifiers, time passing, keys expiring
Next == Requests({1}, Identifiers, FALSE) \/ Steps({1}, FALSE) \/ Connect \/ Tick

Spec == Init /\ [][Next]_vars

\* ------------------------------------------------------------------ claims
Finished(p) == pc[p] = "done" /\ result[p].kind = "decision"

\* every decided check of the identifier of p resolved to the tier of p
OneTier(p) == tiersUsed[ident[p]] = {tier_config[p]}

\* C1: with no time passing and one caller at a time, the k-th decision for
\* an identifier that started with no record, all under one tier of
\* capacity C, is allowed exactly when k <= C; so the first C are allowed
\* and the (C+1)-th is denied.
C1_ExactlyCGranted ==
  \A p \in Procs :
    Finished(p) /\ OneTier(p) =>
      (result[p].allowed <=> result[p].k <= tier_config[p].limit)

\* the (C+1)-th check of a pro identifier has just been denied
C1_Witness ==
  \E p \in Procs :
    /\ Finished(p) /\ OneTier(p)
    /\ tier_config[p] = tiers.pro
    /\ result[p].k = ProLimit + 1
    /\ ~result[p].allowed
    /\ granted[ident[p]] = ProLimit

\* C5: under the conditions of C1 the k-th decision, 1 <= k <= C, is
\* allowed, reports limit = C and tokens_remaining = C - k.
C5_RemainingCountsDown ==
  \A p \in Procs :
    Finished(p) /\ OneTier(p) /\ result[p].k <= tier_config[p].limit =>
      /\ result[p].allowed
      /\ result[p].limit = tier_config[p].limit
      /\ result[p].tokens_remaining = tier_config[p].limit - result[p].k

\* the C-th check of a pro identifier returned tokens_remaining = 0
C5_Witness ==
  \E p \in Procs :
    /\ Finished(p) /\ OneTier(p)
    /\ tier_config[p] = tiers.pro
    /\ result[p].k = ProLimit
    /\ result[p].allowed
    /\ result[p].tokens_remaining = 0

\* C3: checks of one identifier can overlap so that both read the same
\* record and both write; more than C checks are then allowed with no time
\* passing.  Checked as: under one tier, more than C grants happen only
\* where checks of the identifier overlapped (the witness is the overlap).
C3_OverAdmissionOnlyByOverlap ==
  \A i \in Identifiers :
    \A tn \in TierNames :
      tiersUsed[i] = {tiers[tn]} /\ granted[i] > tiers[tn].limit => overlap[i]

\* two checks read the same record, both were allowed, and the identifier
\* has been granted more than the capacity of its tier
C3_Witness ==
  /\ pc[1] = "done" /\ pc[2] = "done"
  /\ ident[1] = ident[2]
  /\ data[1] = data[2]
  /\ result[1].kind = "decision" /\ result[1].allowed
  /\ result[2].kind = "decision" /\ result[2].allowed
  /\ result[1].tokens_remaining = result[2].tokens_remaining
  /\ OneTier(1) /\ OneTier(2)
  /\ granted[ident[1]] > tier_config[1].limit

\* the record an identifier has after g grants under tier tc, no time passing
RecordAfter(tc, g) ==
  IF g = 0
  THEN NoKey
  ELSE [present |-> TRUE,
        data |-> json_dumps([tokens |-> (tc.limit - g) * Scale, last_refill |-> 0]),
        ttl |-> 2 * tc.window]

OwnHistoryOnly ==
  \A j \in Identifiers :
    /\ tiersUsed[j] = {} => store[_get_redis_key(j)] = NoKey
    /\ \A tn \in TierNames :
         tiersUsed[j] = {tiers[tn]} =>
           store[_get_redis_key(j)] = RecordAfter(tiers[tn], granted[j])

\* the identifier the step of process p works for
StepIdent(p) == IF pc[p] = "idle" THEN ident'[p] ELSE ident[p]

OthersUntouched ==
  \A p \in Procs :
    pc'[p] # pc[p] =>
      \A j \in Identifiers \ {StepIdent(p)} :
        store'[_get_redis_key(j)] = store[_get_redis_key(j)]

\* C4: buckets of distinct identifiers are independent: no step of a check
\* for one identifier changes the record of another, and the record of an
\* identifier is determined by its own grants, whatever was done to others.
C4_IdentifiersIndependent == [][OthersUntouched]_vars /\ []OwnHistoryOnly

\* A is exhausted and has been denied; the first check of B is allowed with
\* a full bucket less one
C4_Witness ==
  \E p \in Procs :
    /\ Finished(p) /\ ident[p] = "B" /\ OneTier(p)
    /\ result[p].k = 1
    /\ result[p].allowed
    /\ result[p].tokens_remaining = tier_config[p].limit - 1
    /\ \E tn \in TierNames :
         /\ tiersUsed["A"] = {tiers[tn]}
         /\ granted["A"] = tiers[tn].limit
         /\ decided["A"] > granted["A"]

\* a step in which process p returns a denied decision
Denies(p) ==
  /\ pc[p] # "done" /\ pc'[p] = "done"
  /\ result'[p].kind = "decision" /\ ~result'[p].allowed

DenyWritesNothing ==
  \A p \in Procs :
    /\ Denies(p) => store' = store /\ sets'[p] = 0
    /\ pc'[p] # pc[p] /\ pc[p] # "set" => store' = store

\* C2: a denied check writes nothing: the step that returns the denial
\* leaves every key (record and ttl) as it was, the call has issued no SET,
\* and no step of a check other than its SET changes the store.
C2_DenialWritesNothing == [][DenyWritesNothing]_vars

\* a check was denied while the identifier's record is stored
C2_Witness ==
  \E p \in Procs :
    /\ Finished(p) /\ ~result[p].allowed
    /\ sets[p] = 0
    /\ data[p].kind = "bytes"
    /\ store[_get_redis_key(ident[p])] =
         [present |-> TRUE, data |-> data[p].bytes, ttl |-> 2 * tier_config[p].window]

\* the check of p has computed its decision
HasOutcome(p) == pc[p] = "set" \/ Finished(p)

Outcome(p) == IF pc[p] = "set" THEN pending[p].ret ELSE result[p]

\* the clock reading of the decision (reset_at is that reading plus window)
DecidedAt(p) == Outcome(p).reset_at - tier_config[p].window

\* the check of p read a parsable record
ReadRecord(p) == data[p].kind = "bytes" /\ json_loads(data[p].bytes) # ParseError

StateRead(p) == json_loads(data[p].bytes)

\* the check of p found no record, or a depleted one last refilled at least
\* a window before the decision
Replenished(p) ==
  \/ data[p] = Nil
  \/ /\ ReadRecord(p)
     /\ StateRead(p).tokens < Scale
     /\ DecidedAt(p) - StateRead(p).last_refill >= tier_config[p].window

C7_NoRefillWithoutElapsedTime ==
  \A p \in Procs :
    /\ pc[p] = "done" /\ data[p].kind \in {"bytes", "nil"} =>
         result[p].kind = "decision"
    /\ HasOutcome(p) /\ ReadRecord(p) /\ DecidedAt(p) <= StateRead(p).last_refill =>
         LET computed == Min(tier_config[p].limit * Scale, StateRead(p).tokens)
         IN  /\ Outcome(p).tokens_remaining * Scale <= StateRead(p).tokens
             /\ IF computed >= Scale
                THEN /\ Outcome(p).allowed
                     /\ json_loads(pending[p].data).tokens = computed - Scale
                     /\ Outcome(p).tokens_remaining = int(computed - Scale)
                ELSE /\ ~Outcome(p).allowed
                     /\ Outcome(p).tokens_remaining = 0

\* the clock was behind the stored last_refill when the check decided
C7_Witness ==
  \E p \in Procs :
    /\ Finished(p)
    /\ ReadRecord(p)
    /\ DecidedAt(p) < StateRead(p).last_refill
    /\ result[p].allowed

\* the step of p needs the store and the store is not there: get_client()
\* raises on entry, or the server fails the GET or the SET
StoreFails(p) ==
  \/ pc[p] = "idle" /\ pc'[p] # "idle" /\ ~get_client /\ result'[p].kind # "rejected"
  \/ pc[p] \in {"get", "set"} /\ pc'[p] # pc[p] /\ ~serverUp

FailsClosed ==
  \A p \in Procs :
    /\ StoreFails(p) =>
         /\ pc'[p] = "done"
         /\ result'[p].kind = "error"
         /\ store' = store
    /\ pc[p] = "calc" /\ pc'[p] # "calc" /\ ~get_client =>
         /\ pc'[p] = "done"
         /\ ~(result'[p].kind = "decision" /\ result'[p].allowed)
    /\ pc[p] # "done" /\ pc'[p] = "done"
         /\ result'[p].kind = "decision" /\ result'[p].allowed => serverUp

\* C8: while the store is unavailable a check fails closed: the step that
\* meets the failure ends the call with an error (no second attempt),
\* nothing is written, and an allowed decision is returned only by a SET
\* the server answered.
C8_StoreOutageFailsClosed == [][FailsClosed]_vars

\* a check ended with the store's error while the server is down, after
\* the same caller's connection had been established
C8_Witness ==
  \E p \in Procs :
    /\ pc[p] = "done"
    /\ result[p] = Raised("store", TRUE)
    /\ gets[p] = 1
    /\ ~serverUp
    /\ is_connected

\* C9: bytes under the key that do not parse are treated as an absent
\* record: the check is allowed with tokens_remaining = capacity - 1 and no
\* error reaches the caller.
C9_CorruptStateTreatedAsAbsent ==
  \A p \in Procs :
    pc[p] = "done" /\ data[p] = Bytes(Garbage) =>
      /\ result[p].kind = "decision"
      /\ result[p].allowed
      /\ result[p].tokens_remaining = tier_config[p].limit - 1

\* a /check request with tier t is answered 400 at once: no GET, no SET,
\* the store as it was
Rejects(t) ==
  \A p \in Procs, id \in Identifiers, h \in BOOLEAN :
    rate_limit(p, id, t, h) =>
      /\ result'[p] = [kind |-> "rejected", http |-> 400]
      /\ pc'[p] = "done"
      /\ gets'[p] = 0 /\ sets'[p] = 0
      /\ store' = store

\* C10 as stated: every request naming a tier that is not a key of the
\* registry is rejected with 400 before the coordinator is called.
C10_UnknownTierRejected ==
  [][\A t \in TierArgs \ (DOMAIN tiers \cup {None}) : Rejects(t)]_vars

\* C10 as amended: every request naming a non-empty tier that is not a key
\* of the registry is rejected with 400 before the coordinator is called,
\* with no store read or write; the empty string is served as the default
\* tier.
C10_NonEmptyUnknownTierRejected ==
  [][\A t \in TierArgs \ (DOMAIN tiers \cup {None, ""}) : Rejects(t)]_vars

\* a request was rejected while the identifier has a stored bucket record
C10_Witness ==
  \E p \in Procs :
    /\ pc[p] = "done"
    /\ result[p] = [kind |-> "rejected", http |-> 400]
    /\ gets[p] = 0 /\ sets[p] = 0
    /\ store[_get_redis_key(ident[p])].present
    /\ json_loads(store[_get_redis_key(ident[p])].data) # ParseError

\* process p is inside check_rate_limit or holds what it returned or raised
InCheck(p) ==
  \/ pc[p] \in {"get", "calc", "set"}
  \/ pc[p] = "done" /\ result[p].kind \in {"decision", "error"}

\* C11: tier resolution in the coordinator is total and a function of the
\* argument: a tier that is absent or not a key of the registry resolves to
\* the default tier's (capacity, window), a registered one to its own, and
\* the limit of every decision is the capacity resolved.
C11_UnknownTierResolvesToDefault ==
  \A p \in Procs :
    /\ InCheck(p) =>
         tier_config[p] = IF tier[p] \in {"free", "pro"}
                          THEN tiers[tier[p]]
                          ELSE [limit |-> FreeLimit, window |-> FreeWindow]
    /\ HasOutcome(p) => Outcome(p).limit = tier_config[p].limit

\* a direct call with an unregistered tier name was decided under the
\* default tier
C11_Witness ==
  \E p \in Procs :
    /\ Finished(p) /\ ~api[p]
    /\ tier[p] = "bogus"
    /\ result[p].limit = FreeLimit
    /\ result[p].allowed

\* C12: checks of one identifier under different tiers use independent
\* buckets: the first check of the identifier under a tier is not changed
\* by a check made under another tier before it, so it is allowed with
\* tokens_remaining = capacity - 1 as for a new bucket.  (Stated for the
\* second decision of an identifier whose two decisions used two tiers.)
C12_TiersHaveOwnBuckets ==
  \A p \in Procs :
    Finished(p) /\ result[p].k = 2 /\ Cardinality(tiersUsed[ident[p]]) = 2 =>
      /\ result[p].allowed
      /\ result[p].tokens_remaining = tier_config[p].limit - 1

\* C13: retry_after is present exactly in denied decisions and equals the
\* window of the tier used; a denied decision has tokens_remaining = 0 and
\* limit = capacity; the /check handler answers it 429 and a grant 200.
C13_RetryAfterOnlyWhenDenied ==
  \A p \in Procs :
    /\ HasOutcome(p) =>
         /\ ("retry_after" \in DOMAIN Outcome(p)) <=> ~Outcome(p).allowed
         /\ ~Outcome(p).allowed =>
              /\ Outcome(p).retry_after = tier_config[p].window
              /\ Outcome(p).tokens_remaining = 0
              /\ Outcome(p).limit = tier_config[p].limit
    /\ Finished(p) /\ api[p] =>
         result[p].http = IF result[p].allowed THEN 200 ELSE 429

\* a pro request was answered 429 with retry_after = the pro window
C13_Witness ==
  \E p \in Procs :
    /\ Finished(p) /\ api[p]
    /\ tier_config[p] = tiers.pro
    /\ ~result[p].allowed
    /\ result[p].http = 429
    /\ result[p].retry_after = ProWindow

\* the step in which the SET of process p is executed
Writes(p) == pc[p] = "set" /\ pc'[p] = "done" /\ result'[p].kind = "decision"

WrittenInRange ==
  \A p \in Procs :
    Writes(p) =>
      LET rec == store'[_get_redis_key(ident[p])]
      IN  /\ rec.present
          /\ json_loads(rec.data).tokens >= 0
          /\ json_loads(rec.data).tokens <= tier_config[p].limit * Scale

TtlSetOnGrantOnly ==
  \A p \in Procs :
    /\ Writes(p) /\ result'[p].allowed =>
         store'[_get_redis_key(ident[p])] =
           [present |-> TRUE, data |-> pending[p].data,
            ttl |-> 2 * tier_config[p].window]
    /\ Denies(p) =>
         store'[_get_redis_key(ident[p])] = store[_get_redis_key(ident[p])]

\* a stored record has lived age seconds of a ttl of 2 * window of some
\* tier, so it is gone once 2 * window have passed without a write; a check
\* that finds no record is allowed with tokens_remaining = capacity - 1
GoneAfterTtl ==
  /\ \A i \in Identifiers :
       LET k == _get_redis_key(i)
       IN  store[k].present =>
             \E tn \in TierNames :
               /\ store[k].ttl + age[k] = 2 * tiers[tn].window
               /\ age[k] < 2 * tiers[tn].window
  /\ \A p \in Procs :
       HasOutcome(p) /\ data[p] = Nil =>
         /\ Outcome(p).allowed
         /\ Outcome(p).tokens_remaining = tier_config[p].limit - 1
         /\ json_loads(pending[p].data) =
              [tokens |-> (tier_config[p].limit - 1) * Scale,
               last_refill |-> DecidedAt(p)]

\* C15: every allowed check writes the record with ttl = 2 * window of its
\* tier and a denied check never refreshes the ttl; once 2 * window pass
\* with no allowed check the record is gone, and the next check starts from
\* a full bucket (tokens = capacity, last_refill = now): allowed, with
\* tokens_remaining = capacity - 1.
C15_TtlTwiceWindow == [][TtlSetOnGrantOnly]_vars /\ []GoneAfterTtl

\* the record of the identifier was written, has expired, and the check
\* that found it gone is about to write a full bucket less one
C15_Witness ==
  \E p \in Procs :
    /\ pc[p] = "set"
    /\ data[p] = Nil
    /\ age[_get_redis_key(ident[p])] >= 2 * FreeWindow
    /\ ~store[_get_redis_key(ident[p])].present
    /\ pending[p].ret.tokens_remaining = tier_config[p].limit - 1

\* the check of p computes its decision in this step
Decides(p) == pc[p] = "calc" /\ HasOutcome(p)'

ResetAtIsNowPlusWindow ==
  \A p \in Procs :
    Decides(p) => Outcome(p)'.reset_at = now + tier_config[p].window

\* every decision of the identifier so far was taken under the tier tc
OnlyTier(id, tc) == tiersUsed[id] = {tc}

\* a check that follows a denial by at least the window is allowed
AllowedFromResetAt ==
  \A id \in Identifiers, tn \in TierNames :
    OnlyTier(id, tiers[tn]) =>
      \A i \in 1 .. Len(log[id]) - 1 :
        /\ ~log[id][i].allowed
        /\ log[id][i + 1].at >= log[id][i].at + tiers[tn].window
        => log[id][i + 1].allowed

GrantsIn(id, i, j) == Cardinality({k \in i .. j : log[id][k].allowed})

\* C18: with one caller at a time, a clock that never steps back and one
\* tier of capacity C and window W, the allowed checks of an identifier
\* whose decision times lie in an interval of length T number at most
\* C + T * C / W, also when the record expired and was created anew in
\* between.  (Both sides are multiplied by W.)
C18_AdmissionBound ==
  \A id \in Identifiers, tn \in TierNames :
    OnlyTier(id, tiers[tn]) =>
      \A i \in 1 .. Len(log[id]) : \A j \in i .. Len(log[id]) :
        GrantsIn(id, i, j) * tiers[tn].window
          <= tiers[tn].limit * tiers[tn].window
               + (log[id][j].at - log[id][i].at) * tiers[tn].limit

\* a free identifier attained the bound with a burst of several grants, and
\* was granted again after staying idle until its record had expired
C18_Witness ==
  /\ OnlyTier("A", tiers.free)
  /\ \E i \in 1 .. Len(log["A"]) : \E j \in i + 1 .. Len(log["A"]) :
       GrantsIn("A", i, j) * FreeWindow
         = FreeLimit * FreeWindow + (log["A"][j].at - log["A"][i].at) * FreeLimit
  /\ \E k \in 1 .. Len(log["A"]) - 1 :
       /\ log["A"][k].allowed /\ log["A"][k + 1].allowed
       /\ log["A"][k + 1].at >= log["A"][k].at + 2 * FreeWindow

\* an iteration of the loop of connect runs in this step
Attempts == connPc = "try" /\ client' /\ UNCHANGED <<serverUp, procVars>>

ConnectLoop ==
  /\ Attempts /\ serverUp => is_connected' /\ connPc' = "idle" /\ ~connRaised'
  /\ Attempts /\ ~serverUp /\ attempt < max_retries - 1 =>
       connPc' = "try" /\ attempt' = attempt + 1
  /\ Attempts /\ ~serverUp /\ attempt = max_retries - 1 =>
       connPc' = "idle" /\ connRaised'
  /\ (\E p \in Procs : pc'[p] # pc[p]) => UNCHANGED connVars

\* C17: connect() makes at most max_retries = 3 attempts and always
\* terminates: the attempt whose ping succeeds returns at once with
\* is_connected = true, the third failed attempt raises and no fourth is
\* made; and no step of a check changes the connection.
C17_ConnectTerminates ==
  /\ [](attempt + 1 <= max_retries)
  /\ [][ConnectLoop]_vars
  /\ (connPc = "try") ~> (connPc = "idle")

\* connect() has raised after its third failed attempt
C17_Witness ==
  /\ connPc = "idle" /\ connRaised
  /\ attempt + 1 = max_retries
  /\ ~serverUp

\* the record under key k, when there is one and it parses
Stored(k) == json_loads(store[k].data)

LastRefillKept ==
  \A p \in Procs :
    LET k == _get_redis_key(ident[p])
    IN  Writes(p) /\ store[k].present /\ Stored(k) # ParseError =>
          Stored(k)'.last_refill >= Stored(k).last_refill

\* C19: while the record of an identifier exists, each write of a check
\* stores a last_refill that is at least the one it replaces, also when
\* the clock reading of the check is earlier than the stored last_refill.
C19_LastRefillNeverBackward == [][LastRefillKept]_vars

\* C20: between calls of connect() and close(), get_client() returns the
\* client only if the most recent connect() ended with a successful ping
\* and no close() followed; after a connect() that raised, or a close(),
\* it raises.
C20_ClientOnlyAfterSuccessfulConnect ==
  connPc = "idle" /\ get_client => ~connRaised

====
